---- MODULE Spec2Model ----
(***************************************************************************)
(* A model of the RFP retrieval-augmented answering service:               *)
(*   - rfps/main/utils/pinecone_setup.py  (PineconeManager)                *)
(*   - rfps/main/utils/rag_service.py     (RAGService)                     *)
(*   - rfps/main/views.py                 (QueryRAGView, InsertRAGView,    *)
(*                                         GenerateRFPView)                *)
(* Strings that the code inspects character by character are modelled as   *)
(* sequences of one-character strings.                                     *)
(***************************************************************************)
EXTENDS Integers, Sequences, FiniteSets, TLC

(***************************************************************************)
(* Bounds of the model.                                                    *)
(***************************************************************************)
\* Largest number of QuestionAnswer rows in the table.
MaxQA == 3

(***************************************************************************)
(* Python string operations used by the views.                             *)
(***************************************************************************)
\* The characters str.strip() removes, as far as the model's alphabet goes.
Whitespace == {" ", "\t", "\n"}

RECURSIVE lstrip(_)
lstrip(s) ==
    IF s # <<>> /\ Head(s) \in Whitespace THEN lstrip(Tail(s)) ELSE s

RECURSIVE rstrip(_)
rstrip(s) ==
    IF s # <<>> /\ s[Len(s)] \in Whitespace
    THEN rstrip(SubSeq(s, 1, Len(s) - 1))
    ELSE s

\* str.strip(): leading and trailing whitespace removed.
strip(s) == rstrip(lstrip(s))

\* str.lower() on one character of the model's alphabet.
lowerChar(c) ==
    CASE c = "A" -> "a"
      [] c = "B" -> "b"
      [] OTHER   -> c

\* str.lower().
lower(s) == [i \in 1..Len(s) |-> lowerChar(s[i])]

\* str.replace(" ", "_").
replace_space(s) == [i \in 1..Len(s) |-> IF s[i] = " " THEN "_" ELSE s[i]]

(***************************************************************************)
(* The database: projects and the QuestionAnswer table.                    *)
(***************************************************************************)
\* Project rows: id -> name.  Ids outside the domain do not exist.
ProjectIds == {1, 2}
RequestIds == {1, 2, 3}
ProjectName(p) ==
    IF p = 1 THEN <<"A", " ", "b">> ELSE <<"A", "_", "b">>

\* The sentence the prompt tells the model to answer with when the context
\* does not hold the answer.
FallbackSentence ==
    << "I", " ", "d", "o", "n", "'", "t", " ", "h", "a", "v", "e", " ",
       "e", "n", "o", "u", "g", "h", " ", "i", "n", "f", "o", "r", "m", "a",
       "t", "i", "o", "n", " ", "t", "o", " ", "a", "n", "s", "w", "e", "r",
       " ", "t", "h", "a", "t", "." >>

\* Question and answer texts the rows are drawn from.
Questions == { <<"a">>, <<" ", "A">>, <<"b">> }
Answers == { FallbackSentence, FallbackSentence \o <<"\n">>, <<"o", "k">> }

\* A QuestionAnswer row; created is the position in the table, which is the
\* order of created_at.
QuestionAnswer ==
    [created : 1..(MaxQA + 1), project : ProjectIds,
     question : Questions, answer : Answers]

\* The rows the tables are drawn from: any question and answer for project 1,
\* and two rows of project 2 that the fetch for project 1 has to leave out.
RowFields ==
    [project : {1}, question : Questions, answer : Answers]
    \cup [project : {2}, question : { <<"b">> },
          answer : { FallbackSentence, <<"o", "k">> }]

\* Tables of n rows, in creation order.
Tables(n) ==
    { [i \in 1..n |-> [created |-> i, project |-> t[i].project,
                       question |-> t[i].question, answer |-> t[i].answer]] :
        t \in [1..n -> RowFields] }

AllTables == UNION { Tables(n) : n \in 0..MaxQA }

RECURSIVE Reverse(_)
Reverse(s) == IF s = <<>> THEN <<>> ELSE Append(Reverse(Tail(s)), Head(s))

RECURSIVE SelectSeq2(_, _)
SelectSeq2(s, p) ==
    IF s = <<>> THEN <<>>
    ELSE IF Head(s).project = p
         THEN <<Head(s)>> \o SelectSeq2(Tail(s), p)
         ELSE SelectSeq2(Tail(s), p)

\* QuestionAnswer.objects.filter(project=project).order_by('-created_at')
FetchQAs(table, p) == Reverse(SelectSeq2(table, p))

(***************************************************************************)
(* GenerateRFPView.post: the dedup / relevance filter.                     *)
(***************************************************************************)
\* A normalisation that trims but keeps the case.
QuestionNormalizedNoLower(qa) == strip(qa.question)
\* question_normalized = qa.question.strip().lower()
question_normalized(qa) == lower(strip(qa.question))

\* A relevance test that drops nothing.
AnswerNeverUnhelpful(qa) == FALSE
\* qa.answer.strip() == "I don't have enough information to answer that."
answer_unhelpful(qa) == strip(qa.answer) = FallbackSentence

\* An accumulator that grows at the front.
QaPairsPrepend(qa_pairs, qa) == <<qa>> \o qa_pairs
\* qa_pairs.append(qa)
qa_pairs_append(qa_pairs, qa) == Append(qa_pairs, qa)

\* A loop that marks a question seen also when it drops the record.
RECURSIVE FilterLoopMarksSeen(_, _, _)
FilterLoopMarksSeen(all_qas, qa_pairs, seen_questions) ==
    IF all_qas = <<>> THEN qa_pairs
    ELSE LET qa == Head(all_qas)
             qn == question_normalized(qa)
         IN  IF qn \in seen_questions
             THEN FilterLoopMarksSeen(Tail(all_qas), qa_pairs, seen_questions)
             ELSE IF answer_unhelpful(qa)
                  THEN FilterLoopMarksSeen(Tail(all_qas), qa_pairs,
                                           seen_questions \cup {qn})
                  ELSE FilterLoopMarksSeen(Tail(all_qas),
                                           qa_pairs_append(qa_pairs, qa),
                                           seen_questions \cup {qn})
\* The loop "for qa in all_qas", with its two accumulators.
RECURSIVE FilterLoop(_, _, _)
FilterLoop(all_qas, qa_pairs, seen_questions) ==
    IF all_qas = <<>> THEN qa_pairs
    ELSE LET qa == Head(all_qas)
             qn == question_normalized(qa)
         IN  IF qn \in seen_questions
             THEN FilterLoop(Tail(all_qas), qa_pairs, seen_questions)
             ELSE IF answer_unhelpful(qa)
                  THEN FilterLoop(Tail(all_qas), qa_pairs, seen_questions)
                  ELSE FilterLoop(Tail(all_qas),
                                  qa_pairs_append(qa_pairs, qa),
                                  seen_questions \cup {qn})

FilterQAs(all_qas) == FilterLoop(all_qas, <<>>, {})

\* An emptiness test that never fires.
NoQaPairsNever(pairs) == FALSE
\* if not qa_pairs:
no_qa_pairs(pairs) == pairs = <<>>

(***************************************************************************)
(* GenerateRFPView: context, synthesis, document, storage.                 *)
(***************************************************************************)
\* _build_context_from_qa: for idx, qa in enumerate(qa_pairs, 1) the lines
\* "Q{idx}: {question}", "A{idx}: {answer}" and "---".
RECURSIVE ContextParts(_, _)
ContextParts(pairs, idx) ==
    IF pairs = <<>> THEN <<>>
    ELSE << <<"Q", idx, Head(pairs).question>>,
            <<"A", idx, Head(pairs).answer>>,
            <<"---">> >> \o ContextParts(Tail(pairs), idx + 1)

build_context_from_qa(pairs) == ContextParts(pairs, 1)

\* What chat_with_gpt may return for the synthesis request.
GptOutputs == {"narrative1", "narrative2"}

\* _create_word_document, appendix part: per pair a "Q{idx}: ..." paragraph
\* and an "A: ..." paragraph.
RECURSIVE AppendixParts(_, _)
AppendixParts(pairs, idx) ==
    IF pairs = <<>> THEN <<>>
    ELSE << <<"Q", idx, Head(pairs).question>>,
            <<"A", Head(pairs).answer>> >> \o AppendixParts(Tail(pairs), idx + 1)

\* A rendering whose appendix counts from 0.
CreateWordDocumentFromZero(p, content, pairs) ==
    [subtitle |-> ProjectName(p), body |-> content,
     appendix |-> AppendixParts(pairs, 0)]
\* _create_word_document(project, ai_generated_content, qa_pairs)
create_word_document(p, content, pairs) ==
    [subtitle |-> ProjectName(p), body |-> content,
     appendix |-> AppendixParts(pairs, 1)]

\* filename = f'{project.name.replace(" ", "_")}_RFP_Response.docx'
Filename(p) == replace_space(ProjectName(p)) \o <<"_RFP_Response.docx">>

\* The days datetime.now() may fall on.
Dates == {"2025/10/11", "2025/10/12"}

\* file_path = MEDIA_ROOT / 'generated_rfps' / %Y / %m / %d / filename
FilePath(date, p) == <<date, Filename(p)>>
Paths == { FilePath(d, p) : d \in Dates, p \in ProjectIds }

\* What a path may hold: nothing, a file just opened for writing, a file
\* whose write broke off, or a whole document.
NoFile == [state |-> "absent"]
EmptyFile == [state |-> "empty"]
PartialFile == [state |-> "partial"]
WholeFile(doc) == [state |-> "complete", doc |-> doc]

\* No document rendered yet.
NoDocument == [subtitle |-> <<>>, body |-> "none", appendix |-> <<>>]
NoResponse == [status |-> 0, kind |-> "none"]

(***************************************************************************)
(* The vector store and the RAG service.                                   *)
(***************************************************************************)
\* Largest number of chunks handed to one insert_documents call.
MaxChunks == 2
\* Largest number of vector records in the index.
MaxVectors == 3

\* Python's None, and every empty value that tests false like it.
None == <<>>

\* RAGService.PINECONE_INDEX_NAME, and the index of the insertion script.
PINECONE_INDEX_NAME == "rag-docx-index-modular"
IndexNames == {PINECONE_INDEX_NAME, "rag-knowledge-base"}

\* The default k of PineconeManager.get_rag_chain.
DefaultK == 3

\* A key that leaves the project id out.
NamespaceWithoutId(project_id) == <<"project_">>
\* namespace=f"project_{project_id}"
Namespace(project_id) == <<"project_", project_id>>

\* PineconeManager.__init__: self.namespace = namespace or "default"
ManagerNamespace(namespace) ==
    IF namespace = None THEN <<"default">> ELSE namespace

Namespaces == { Namespace(p) : p \in ProjectIds } \cup { <<"default">> }

\* PineconeManager.get_rag_chain: namespace = namespace or self.namespace
ChainNamespace(namespace, self_namespace) ==
    IF namespace = None THEN self_namespace ELSE namespace

\* The chunk lists a caller may hand over: n chunks, told apart by ordinal.
Chunk(i) == <<"chunk", i>>
ChunkLists == { [i \in 1..n |-> Chunk(i)] : n \in 1..MaxChunks }

\* The documents a script hands to create_or_connect_vectorstore: none
\* (query_data.main) or its chunked document (insert_data.main).
ScriptDocuments == { None, <<Chunk(1)>> }

Workers == {"w1", "w2"}

VARIABLES
    qaTable,        \* the QuestionAnswer table, in creation order
    g_pc,           \* where GenerateRFPView.post stands
    g_req,          \* the request: project_id and whether it validates
    all_qas,        \* the fetched rows, newest first
    qa_pairs,       \* the filtered rows
    context,        \* the Q/A transcript handed to synthesis
    rfp_content,    \* the synthesized text
    buffer,         \* the rendered document
    gptCalls,       \* calls of chat_with_gpt within the current request
    today,          \* datetime.now() of the current request
    files,          \* storage: path -> content
    dirs,           \* storage: the dated directories that exist
    storage0,       \* files and dirs when the current request began
    response,       \* the response of the current request
    delivered       \* (date, project) -> the document last returned for it

gvars == <<qaTable, g_pc, g_req, all_qas, qa_pairs, context, rfp_content,
           buffer, gptCalls, today, files, dirs, storage0, response,
           delivered>>

VARIABLES
    indexes,            \* names of the indexes that exist at the provider
    store,              \* namespace -> records of index PINECONE_INDEX_NAME
    embeddings_model,   \* RAGService._embeddings_model
    llm,                \* RAGService._llm
    pinecone_manager,   \* RAGService._pinecone_manager
    rag_chain,          \* RAGService._rag_chain
    made,               \* how many clients of each kind were constructed
    call                \* per worker: the call it runs and its locals

svars == <<indexes, store, embeddings_model, llm, pinecone_manager,
           rag_chain, made, call>>

VARIABLES
    lastView        \* the last request QueryRAGView.post or
                    \* InsertRAGView.post answered, with its response

vvars == <<lastView>>

VARIABLES
    n_text,         \* ai_generated_content, the text being rendered
    n_pc,           \* where the rendering of the narrative stands
    lines,          \* the lines still to go through
    n_doc           \* the elements added to the document so far

nvars == <<n_text, n_pc, lines, n_doc>>

\* No narrative is being rendered.
NIdle ==
    /\ n_text = <<>>
    /\ n_pc = "idle"
    /\ lines = <<>>
    /\ n_doc = <<>>

GInit ==
    /\ g_pc = "idle"
    /\ g_req = [project_id |-> 0, valid |-> FALSE]
    /\ all_qas = <<>>
    /\ qa_pairs = <<>>
    /\ context = <<>>
    /\ rfp_content = "none"
    /\ buffer = NoDocument
    /\ gptCalls = 0
    /\ today = "2025/10/11"
    /\ files = [p \in Paths |-> NoFile]
    /\ dirs = {}
    /\ storage0 = [files |-> [p \in Paths |-> NoFile], dirs |-> {}]
    /\ response = NoResponse
    /\ delivered = [k \in Dates \X ProjectIds |-> NoDocument]

\* A response ends the request.
Respond(r) ==
    /\ response' = r
    /\ g_pc' = "done"

\* post(): serializer = ProjectRAGSerializer(data=request.data); an invalid
\* request is answered 400 with serializer.errors.
GenPost(pid, valid) ==
    /\ g_pc \in {"idle", "done"}
    /\ g_req' = [project_id |-> pid, valid |-> valid]
    /\ all_qas' = <<>>
    /\ qa_pairs' = <<>>
    /\ context' = <<>>
    /\ rfp_content' = "none"
    /\ buffer' = NoDocument
    /\ gptCalls' = 0
    /\ storage0' = [files |-> files, dirs |-> dirs]
    /\ IF valid
       THEN /\ g_pc' = "fetch"
            /\ response' = NoResponse
       ELSE Respond([status |-> 400, kind |-> "invalid"])
    /\ UNCHANGED <<svars, vvars, nvars>>
    /\ UNCHANGED delivered
    /\ UNCHANGED <<qaTable, today, files, dirs>>

\* project = Project.objects.get(pk=project_id); all_qas = ...order_by(...)
GenFetch ==
    /\ g_pc = "fetch"
    /\ IF g_req.project_id \in ProjectIds
       THEN /\ all_qas' = FetchQAs(qaTable, g_req.project_id)
            /\ g_pc' = "filter"
            /\ UNCHANGED response
       ELSE /\ Respond([status |-> 404, kind |-> "ProjectNotFound"])
            /\ UNCHANGED all_qas
    /\ UNCHANGED <<svars, vvars, nvars>>
    /\ UNCHANGED delivered
    /\ UNCHANGED <<qaTable, g_req, qa_pairs, context, rfp_content, buffer,
                   gptCalls, today, files, dirs, storage0>>

\* A filter step that goes on to the synthesis whatever it kept.
GenFilterNoCheck ==
    /\ g_pc = "filter"
    /\ qa_pairs' = FilterQAs(all_qas)
    /\ g_pc' = "synthesize"
    /\ UNCHANGED <<svars, vvars, nvars>>
    /\ UNCHANGED <<qaTable, g_req, all_qas, context, rfp_content, buffer,
                   gptCalls, today, files, dirs, storage0, response,
                   delivered>>
\* The filter loop, then "if not qa_pairs: return Response(..., 400)".
GenFilter ==
    /\ g_pc = "filter"
    /\ qa_pairs' = FilterQAs(all_qas)
    /\ IF no_qa_pairs(qa_pairs')
       THEN Respond([status |-> 400, kind |-> "NoQAHistory"])
       ELSE /\ g_pc' = "synthesize"
            /\ UNCHANGED response
    /\ UNCHANGED <<svars, vvars, nvars>>
    /\ UNCHANGED delivered
    /\ UNCHANGED <<qaTable, g_req, all_qas, context, rfp_content, buffer,
                   gptCalls, today, files, dirs, storage0>>

\* context = self._build_context_from_qa(qa_pairs);
\* rfp_content = self._generate_rfp_content_with_gpt(project, context):
\* the provider answers or raises, and a raise is answered 500.
GenSynthesize ==
    /\ g_pc = "synthesize"
    /\ context' = build_context_from_qa(qa_pairs)
    /\ gptCalls' = gptCalls + 1
    /\ \/ /\ \E out \in GptOutputs : rfp_content' = out
          /\ g_pc' = "render"
          /\ UNCHANGED response
       \/ /\ Respond([status |-> 500, kind |-> "GenerationError"])
          /\ UNCHANGED rfp_content
    /\ UNCHANGED <<svars, vvars, nvars>>
    /\ UNCHANGED delivered
    /\ UNCHANGED <<qaTable, g_req, all_qas, qa_pairs, buffer, today, files,
                   dirs, storage0>>

\* doc = self._create_word_document(...); doc.save(buffer)
GenRender ==
    /\ g_pc = "render"
    /\ buffer' = create_word_document(g_req.project_id, rfp_content, qa_pairs)
    /\ g_pc' = "mkdir"
    /\ UNCHANGED <<svars, vvars, nvars>>
    /\ UNCHANGED delivered
    /\ UNCHANGED <<qaTable, g_req, all_qas, qa_pairs, context, rfp_content,
                   gptCalls, today, files, dirs, storage0, response>>

\* current_date = datetime.now();
\* generated_rfps_dir.mkdir(parents=True, exist_ok=True): done or OSError.
GenMkdir(date) ==
    /\ g_pc = "mkdir"
    /\ today' = date
    /\ \/ /\ dirs' = dirs \cup {date}
          /\ g_pc' = "open"
          /\ UNCHANGED response
       \/ /\ Respond([status |-> 500, kind |-> "PersistError"])
          /\ UNCHANGED dirs
    /\ UNCHANGED <<svars, vvars, nvars>>
    /\ UNCHANGED delivered
    /\ UNCHANGED <<qaTable, g_req, all_qas, qa_pairs, context, rfp_content,
                   buffer, gptCalls, files, storage0>>

\* open(file_path, 'wb'): the file is created or truncated, or OSError.
GenOpen ==
    /\ g_pc = "open"
    /\ \/ /\ files' = [files EXCEPT
                          ![FilePath(today, g_req.project_id)] = EmptyFile]
          /\ g_pc' = "write"
          /\ UNCHANGED response
       \/ /\ Respond([status |-> 500, kind |-> "PersistError"])
          /\ UNCHANGED files
    /\ UNCHANGED <<svars, vvars, nvars>>
    /\ UNCHANGED delivered
    /\ UNCHANGED <<qaTable, g_req, all_qas, qa_pairs, context, rfp_content,
                   buffer, gptCalls, today, dirs, storage0>>

\* f.write(buffer.getvalue()): all bytes written, or OSError part-way.
GenWrite ==
    /\ g_pc = "write"
    /\ \/ /\ files' = [files EXCEPT
                          ![FilePath(today, g_req.project_id)] =
                              WholeFile(buffer)]
          /\ g_pc' = "respond"
          /\ UNCHANGED response
       \/ /\ files' = [files EXCEPT
                          ![FilePath(today, g_req.project_id)] = PartialFile]
          /\ Respond([status |-> 500, kind |-> "PersistError"])
    /\ UNCHANGED <<svars, vvars, nvars>>
    /\ UNCHANGED delivered
    /\ UNCHANGED <<qaTable, g_req, all_qas, qa_pairs, context, rfp_content,
                   buffer, gptCalls, today, dirs, storage0>>

\* response = HttpResponse(buffer.getvalue(), ...); return response
GenRespond ==
    /\ g_pc = "respond"
    /\ Respond([status |-> 200, kind |-> "document", body |-> buffer,
                filename |-> Filename(g_req.project_id)])
    /\ delivered' = [delivered EXCEPT ![<<today, g_req.project_id>>] = buffer]
    /\ UNCHANGED <<svars, vvars, nvars>>
    /\ UNCHANGED <<qaTable, g_req, all_qas, qa_pairs, context, rfp_content,
                   buffer, gptCalls, today, files, dirs, storage0>>

\* The first request of a process.
GenPostOnce(pid, valid) == g_pc = "idle" /\ GenPost(pid, valid)

\* One document request, from its arrival to its response.
GenNextOnce ==
    \/ \E pid \in RequestIds, valid \in BOOLEAN : GenPostOnce(pid, valid)
    \/ GenFetch
    \/ GenFilter
    \/ GenSynthesize
    \/ GenRender
    \/ \E date \in Dates : GenMkdir(date)
    \/ GenOpen
    \/ GenWrite
    \/ GenRespond

(***************************************************************************)
(* RAGService and PineconeManager: calls run by concurrent workers.        *)
(***************************************************************************)
IdleCall ==
    [op |-> "none", pc |-> "idle", project_id |-> 0, chunks |-> <<>>,
     index_name |-> None, documents |-> None, embedding_model |-> None,
     llm |-> None, namespace |-> None, vectorstore |-> None,
     matches |-> {}, outcome |-> "none", result |-> None]

SInit ==
    /\ indexes \in { {}, {PINECONE_INDEX_NAME} }
    /\ store = [ns \in Namespaces |-> <<>>]
    /\ embeddings_model = None
    /\ llm = None
    /\ pinecone_manager = None
    /\ rag_chain = None
    /\ made = [emb |-> 0, llm |-> 0]
    /\ call = [w \in Workers |-> IdleCall]

RECURSIVE SumLen(_, _)
SumLen(f, S) ==
    IF S = {} THEN 0
    ELSE LET x == CHOOSE y \in S : TRUE
         IN  Len(f[x]) + SumLen(f, S \ {x})

TotalVectors == SumLen(store, Namespaces)
InFlight == SumLen([w \in Workers |->
                      IF call[w].op = "ingest" /\ call[w].pc # "done"
                      THEN call[w].chunks ELSE <<>>], Workers)

Free(w) == call[w].pc \in {"idle", "done"}

\* A caller enters RAGService.get_rag_chain(project_id), to invoke the chain
\* it returns.
SvcAnswer(w, pid) ==
    /\ Free(w)
    /\ call' = [call EXCEPT ![w] =
                  [IdleCall EXCEPT !.op = "answer", !.pc = "emb_check",
                                   !.project_id = pid,
                                   !.index_name = PINECONE_INDEX_NAME]]
    /\ UNCHANGED <<gvars, vvars, nvars>>
    /\ UNCHANGED <<indexes, store, embeddings_model, llm, pinecone_manager,
                   rag_chain, made>>

\* A caller enters RAGService.insert_documents(chunks, project_id).
SvcIngest(w, pid, chunks) ==
    /\ Free(w)
    /\ TotalVectors + InFlight + Len(chunks) <= MaxVectors
    /\ call' = [call EXCEPT ![w] =
                  [IdleCall EXCEPT !.op = "ingest", !.pc = "emb_check",
                                   !.project_id = pid, !.chunks = chunks,
                                   !.index_name = PINECONE_INDEX_NAME]]
    /\ UNCHANGED <<gvars, vvars, nvars>>
    /\ UNCHANGED <<indexes, store, embeddings_model, llm, pinecone_manager,
                   rag_chain, made>>

\* A script (insert_data.main, query_data.main) builds a manager of its own,
\* with the default namespace, and calls create_or_connect_vectorstore.
MgrCall(w, index_name, documents) ==
    /\ Free(w)
    /\ call' = [call EXCEPT ![w] =
                  [IdleCall EXCEPT !.op = "script", !.pc = "list",
                                   !.index_name = index_name,
                                   !.documents = documents,
                                   !.namespace = ManagerNamespace(None)]]
    /\ UNCHANGED <<gvars, vvars, nvars>>
    /\ UNCHANGED <<indexes, store, embeddings_model, llm, pinecone_manager,
                   rag_chain, made>>

\* The frame of a call that has returned or raised: what the caller sees.
Returned(c, outcome, result, matches) ==
    [IdleCall EXCEPT !.op = c.op, !.pc = "done", !.project_id = c.project_id,
                     !.outcome = outcome, !.result = result,
                     !.matches = matches]

\* if cls._embeddings_model is None:
EmbCheck(w) ==
    /\ call[w].pc = "emb_check"
    /\ call' = [call EXCEPT ![w].pc =
                  IF embeddings_model = None THEN "emb_new"
                  ELSE IF call[w].op = "answer" THEN "llm_check" ELSE "manager"]
    /\ UNCHANGED <<gvars, vvars, nvars>>
    /\ UNCHANGED <<indexes, store, embeddings_model, llm, pinecone_manager,
                   rag_chain, made>>

\* cls._embeddings_model = OpenAIEmbeddings(model="text-embedding-3-small")
EmbNew(w) ==
    /\ call[w].pc = "emb_new"
    /\ made' = [made EXCEPT !.emb = @ + 1]
    /\ embeddings_model' = <<"OpenAIEmbeddings", made'.emb>>
    /\ call' = [call EXCEPT ![w].pc =
                  IF call[w].op = "answer" THEN "llm_check" ELSE "manager"]
    /\ UNCHANGED <<gvars, vvars, nvars>>
    /\ UNCHANGED <<indexes, store, llm, pinecone_manager, rag_chain>>

\* if cls._llm is None:
LlmCheck(w) ==
    /\ call[w].pc = "llm_check"
    /\ call' = [call EXCEPT ![w].pc =
                  IF llm = None THEN "llm_new" ELSE "manager"]
    /\ UNCHANGED <<gvars, vvars, nvars>>
    /\ UNCHANGED <<indexes, store, embeddings_model, llm, pinecone_manager,
                   rag_chain, made>>

\* cls._llm = ChatOpenAI(model="gpt-4o")
LlmNew(w) ==
    /\ call[w].pc = "llm_new"
    /\ made' = [made EXCEPT !.llm = @ + 1]
    /\ llm' = <<"ChatOpenAI", made'.llm>>
    /\ call' = [call EXCEPT ![w].pc = "manager"]
    /\ UNCHANGED <<gvars, vvars, nvars>>
    /\ UNCHANGED <<indexes, store, embeddings_model, pinecone_manager,
                   rag_chain>>

\* A manager built without a namespace, as _initialize_components builds it.
ManagerWithoutNamespace(c) ==
    [c EXCEPT !.embedding_model = embeddings_model,
              !.llm = llm,
              !.namespace = ManagerNamespace(None)]
\* pinecone_manager = PineconeManager(index_name=cls.PINECONE_INDEX_NAME,
\*     embedding_model=cls._embeddings_model,
\*     namespace=f"project_{project_id}")
NewManager(c) ==
    [c EXCEPT !.embedding_model = embeddings_model,
              !.llm = llm,
              !.namespace = ManagerNamespace(Namespace(c.project_id))]

\* self.vectorstore = PineconeVectorStore.from_existing_index(
\*     index_name=..., embedding=..., namespace=self.namespace);
\* return self.vectorstore
Connected(c) ==
    IF c.op = "script"
    THEN Returned(c, "connected", None, {})
    ELSE [c EXCEPT !.vectorstore = [index_name |-> c.index_name,
                                    namespace |-> c.namespace],
                   !.pc = IF c.op = "answer" THEN "invoke" ELSE "add"]

\* create_or_connect_vectorstore(documents):
\*   if self.index_name not in self.pc.list_indexes().names():
\*       if not documents: raise ValueError(...)
\* and, the index being there, the connection.
ListIndexesStep(c) ==
    IF c.index_name \notin indexes
    THEN IF c.documents = None
         THEN Returned(c, "ValueError", None, {})
         ELSE [c EXCEPT !.pc = "create"]
    ELSE Connected(c)

\* The service's call: the manager is built, then
\* pinecone_manager.create_or_connect_vectorstore() runs its check.
SvcListIndexes(w) ==
    /\ call[w].pc = "manager"
    /\ call' = [call EXCEPT ![w] = ListIndexesStep(NewManager(call[w]))]
    /\ UNCHANGED <<gvars, vvars, nvars>>
    /\ UNCHANGED <<indexes, store, embeddings_model, llm, pinecone_manager,
                   rag_chain, made>>

\* A script's call of create_or_connect_vectorstore(documents) runs its check.
ListIndexes(w) ==
    /\ call[w].pc = "list"
    /\ call' = [call EXCEPT ![w] = ListIndexesStep(call[w])]
    /\ UNCHANGED <<gvars, vvars, nvars>>
    /\ UNCHANGED <<indexes, store, embeddings_model, llm, pinecone_manager,
                   rag_chain, made>>

\* self.pc.create_index(name=..., dimension=1536, metric="cosine", ...):
\* the provider refuses a name that exists.  Then the connection.
CreateIndex(w) ==
    /\ call[w].pc = "create"
    /\ IF call[w].index_name \in indexes
       THEN /\ call' = [call EXCEPT ![w] =
                          Returned(call[w], "AlreadyExists", None, {})]
            /\ UNCHANGED indexes
       ELSE /\ indexes' = indexes \cup {call[w].index_name}
            /\ call' = [call EXCEPT ![w] = Connected(call[w])]
    /\ UNCHANGED <<gvars, vvars, nvars>>
    /\ UNCHANGED <<store, embeddings_model, llm, pinecone_manager,
                   rag_chain, made>>

\* The retriever's answer: the k nearest records of the namespace.  Which
\* ones are nearest is the provider's business.
TopK(recs, k) ==
    IF Len(recs) <= k THEN { { recs[i] : i \in 1..Len(recs) } }
    ELSE { { recs[i] : i \in S } :
             S \in { T \in SUBSET (1..Len(recs)) : Cardinality(T) = k } }

\* What the chain may answer.
ChainAnswers == { FallbackSentence, <<"o", "k">> }

\* pinecone_manager.get_rag_chain(llm=cls._llm), and the chain invoked:
\* the retriever of namespace (namespace or self.namespace) fetches, the
\* model answers.  Either provider may fail.
Invoke(w) ==
    /\ call[w].pc = "invoke"
    /\ LET ns == ChainNamespace(None, call[w].namespace)
       IN \/ \E m \in TopK(store[ns], DefaultK), a \in ChainAnswers :
                call' = [call EXCEPT ![w] = Returned(call[w], "ok", a, m)]
          \/ call' = [call EXCEPT ![w] =
                        Returned(call[w], "ProviderError", None, {})]
    /\ UNCHANGED <<gvars, vvars, nvars>>
    /\ UNCHANGED <<indexes, store, embeddings_model, llm, pinecone_manager,
                   rag_chain, made>>

\* The records add_documents writes: one per chunk; by is the project the
\* insert_documents call was made for.
Records(chunks, pid) ==
    [i \in 1..Len(chunks) |-> [text |-> chunks[i], by |-> pid]]

\* An upsert that leaves out a record the namespace already holds.
AddDocumentsNoDuplicates(records, new) ==
    records \o SelectSeq(new, LAMBDA r :
                  \A i \in DOMAIN records : records[i] # r)
\* vectorstore.add_documents(documents=chunks): every chunk becomes a new
\* record, under an id of its own, after the records the namespace holds.
add_documents(records, new) == records \o new

\* pinecone_manager.vectorstore.add_documents(documents=chunks);
\* return {"inserted_count": len(chunks)}.  A provider failure leaves the
\* records written before it.
AddDocuments(w) ==
    /\ call[w].pc = "add"
    /\ LET ns == call[w].vectorstore.namespace
           recs == Records(call[w].chunks, call[w].project_id)
       IN \/ /\ store' = [store EXCEPT ![ns] = add_documents(@, recs)]
             /\ call' = [call EXCEPT ![w] =
                   Returned(call[w], "ok",
                            <<"inserted_count", Len(call[w].chunks)>>, {})]
          \/ \E n \in 0..(Len(recs) - 1) :
             /\ store' = [store EXCEPT ![ns] =
                                  add_documents(@, SubSeq(recs, 1, n))]
             /\ call' = [call EXCEPT ![w] =
                   Returned(call[w], "ProviderError", None, {})]
    /\ UNCHANGED <<gvars, vvars, nvars>>
    /\ UNCHANGED <<indexes, embeddings_model, llm, pinecone_manager,
                   rag_chain, made>>

SvcNext ==
    \/ \E w \in Workers, pid \in ProjectIds : SvcAnswer(w, pid)
    \/ \E w \in Workers, pid \in ProjectIds, chunks \in ChunkLists :
          SvcIngest(w, pid, chunks)
    \/ \E w \in Workers, name \in IndexNames, documents \in ScriptDocuments :
          MgrCall(w, name, documents)
    \/ \E w \in Workers :
          \/ EmbCheck(w)
          \/ EmbNew(w)
          \/ LlmCheck(w)
          \/ LlmNew(w)
          \/ SvcListIndexes(w)
          \/ ListIndexes(w)
          \/ CreateIndex(w)
          \/ Invoke(w)
          \/ AddDocuments(w)

(***************************************************************************)
(* QueryRAGView.post and InsertRAGView.post.                               *)
(***************************************************************************)
\* Largest number of RFPDocument rows of a project.
MaxDocs == 3

vars == <<gvars, svars, vvars, nvars>>

\* The fields PromptSerializer declares; validated_data holds no other key.
PromptSerializerFields == {"prompt"}
\* The fields ProjectRAGSerializer declares.
ProjectRAGSerializerFields == {"project_id"}

\* The parameters, after cls, of RAGService.get_rag_chain and
\* RAGService.insert_documents.
GetRagChainParams == <<"project_id">>
InsertDocumentsParams == <<"chunks", "project_id">>

\* The arguments at the call sites: RAGService.get_rag_chain() and
\* RAGService.insert_documents(all_chunked_docs).
QueryViewArgs(project_id) == <<>>
InsertViewArgs(all_chunked_docs, project_id) == <<all_chunked_docs>>

\* Python binds positional arguments to parameters in order; a parameter
\* without a default that gets none raises TypeError.
BindsAll(params, args) == Len(args) >= Len(params)

\* What the chain does once it is reached: an answer, or a provider error.
ChainRuns ==
    [outcome : {"ok"}, answer : ChainAnswers]
    \cup { [outcome |-> "ProviderError", answer |-> None] }

\* QueryRAGView.post, from the validated request to the response.  chain is
\* what the RAG chain does if the view gets to invoke it.
QueryView(valid, user_query, project_id, chain) ==
    LET base == [create |-> FALSE, called |-> FALSE, args |-> <<>>]
        args == QueryViewArgs(project_id)
        reached == [base EXCEPT !.called = TRUE, !.args = args]
    IN  IF ~valid
        THEN base @@ [status |-> 400, kind |-> "invalid"]
        ELSE IF "project_id" \notin PromptSerializerFields
        THEN \* serializer.validated_data["project_id"], outside the try
             base @@ [status |-> 500, kind |-> "KeyError"]
        ELSE IF project_id \notin ProjectIds
        THEN base @@ [status |-> 404, kind |-> "ProjectNotFound"]
        ELSE IF ~BindsAll(GetRagChainParams, args)
        THEN reached @@ [status |-> 500, kind |-> "TypeError"]
        ELSE IF chain.outcome # "ok"
        THEN reached @@ [status |-> 500, kind |-> chain.outcome]
        ELSE [reached EXCEPT !.create = TRUE]
             @@ [status |-> 200, kind |-> "answer"]

\* QuestionAnswer.objects.create(project=project, question=user_query,
\*                               answer=answer)
CreateQA(table, project_id, user_query, answer) ==
    Append(table, [created |-> Len(table) + 1, project |-> project_id,
                   question |-> user_query, answer |-> answer])

QueryRAGView_post(valid, user_query, project_id, chain) ==
    /\ LET r == QueryView(valid, user_query, project_id, chain)
       IN /\ lastView' = [view |-> "query", valid |-> valid,
                          prompt |-> user_query, project_id |-> project_id,
                          chain |-> chain, status |-> r.status,
                          kind |-> r.kind, called |-> r.called,
                          args |-> r.args]
          /\ qaTable' = IF r.create
                        THEN CreateQA(qaTable, project_id, user_query,
                                      chain.answer)
                        ELSE qaTable
    /\ UNCHANGED <<g_pc, g_req, all_qas, qa_pairs, context, rfp_content,
                   buffer, gptCalls, today, files, dirs, storage0, response,
                   delivered>>
    /\ UNCHANGED <<svars, nvars>>

\* An RFPDocument row as the ingestion sees it: its declared type, whether
\* its file exists, and whether loader.load() returns or raises.
DocKinds ==
    { [file_type |-> "pdf",  exists |-> TRUE,  loads |-> TRUE],
      [file_type |-> "docx", exists |-> TRUE,  loads |-> TRUE],
      [file_type |-> "txt",  exists |-> TRUE,  loads |-> TRUE],
      [file_type |-> "pdf",  exists |-> FALSE, loads |-> FALSE],
      [file_type |-> "pdf",  exists |-> TRUE,  loads |-> FALSE] }

DocLists == UNION { [1..n -> DocKinds] : n \in 0..MaxDocs }

\* The chunks of the i-th document of the project.
DocChunks(i) == <<Chunk(i)>>

\* "for doc in rfp_documents": a missing file is skipped, pdf and docx are
\* loaded and chunked, any other type is skipped; loader.load() raising
\* leaves the loop by the exception.
RECURSIVE ChunkLoop(_, _, _, _)
ChunkLoop(rfp_documents, i, all_chunked_docs, loaded) ==
    IF i > Len(rfp_documents)
    THEN [raised |-> FALSE, chunks |-> all_chunked_docs, loaded |-> loaded]
    ELSE LET doc == rfp_documents[i]
         IN  IF ~doc.exists
             THEN ChunkLoop(rfp_documents, i + 1, all_chunked_docs, loaded)
             ELSE IF doc.file_type \in {"pdf", "docx"}
                  THEN IF doc.loads
                       THEN ChunkLoop(rfp_documents, i + 1,
                                      all_chunked_docs \o DocChunks(i),
                                      loaded \cup {i})
                       ELSE [raised |-> TRUE, chunks |-> all_chunked_docs,
                             loaded |-> loaded]
                  ELSE ChunkLoop(rfp_documents, i + 1, all_chunked_docs,
                                 loaded)

\* "documents_processed": len(rfp_documents)
documents_processed(rfp_documents, loaded) == Len(rfp_documents)

\* InsertRAGView.post, from the validated request to the response.  upsert
\* is what add_documents does if the view gets to it.
InsertView(valid, project_id, rfp_documents, upsert) ==
    LET loop == ChunkLoop(rfp_documents, 1, <<>>, {})
        base == [collected |-> <<>>, loaded |-> {}, called |-> FALSE,
                 args |-> <<>>, upserted |-> FALSE,
                 documents_processed |-> 0]
    IN  IF ~valid
        THEN base @@ [status |-> 400, kind |-> "invalid"]
        ELSE IF project_id \notin ProjectIds
        THEN base @@ [status |-> 404, kind |-> "ProjectNotFound"]
        ELSE IF rfp_documents = <<>>
        THEN base @@ [status |-> 200, kind |-> "NoDocuments"]
        ELSE IF loop.raised
        THEN [base EXCEPT !.collected = loop.chunks, !.loaded = loop.loaded]
             @@ [status |-> 500, kind |-> "LoadError"]
        ELSE IF loop.chunks = <<>>
        THEN base @@ [status |-> 200, kind |-> "NoChunks"]
        ELSE LET args == InsertViewArgs(loop.chunks, project_id)
                 reached == [base EXCEPT !.collected = loop.chunks,
                                         !.loaded = loop.loaded,
                                         !.called = TRUE, !.args = args]
             IN  IF ~BindsAll(InsertDocumentsParams, args)
                 THEN reached @@ [status |-> 500, kind |-> "TypeError"]
                 ELSE IF upsert # "ok"
                 THEN reached @@ [status |-> 500, kind |-> upsert]
                 ELSE [reached EXCEPT
                         !.upserted = TRUE,
                         !.documents_processed =
                             documents_processed(rfp_documents, loop.loaded)]
                      @@ [status |-> 200, kind |-> "inserted"]

InsertRAGView_post(valid, project_id, rfp_documents, upsert) ==
    /\ LET r == InsertView(valid, project_id, rfp_documents, upsert)
       IN /\ lastView' = r @@ [view |-> "insert", valid |-> valid,
                               project_id |-> project_id,
                               docs |-> rfp_documents, upsert |-> upsert]
          /\ store' = IF r.upserted
                      THEN [store EXCEPT ![Namespace(r.args[2])] =
                              @ \o Records(r.args[1], r.args[2])]
                      ELSE store
    /\ UNCHANGED <<gvars, nvars>>
    /\ UNCHANGED <<indexes, embeddings_model, llm, pinecone_manager,
                   rag_chain, made, call>>

NoRequest == [view |-> "none", status |-> 0, kind |-> "none"]

VInit == lastView = NoRequest

\* project.documents.all(): a project that does not exist has no rows.
DocumentsOf(project_id) ==
    IF project_id \in ProjectIds THEN DocLists ELSE { <<>> }

ViewNext ==
    \/ \E valid \in BOOLEAN, q \in Questions, pid \in RequestIds,
          chain \in ChainRuns : QueryRAGView_post(valid, q, pid, chain)
    \/ \E valid \in BOOLEAN, pid \in RequestIds,
          upsert \in {"ok", "ProviderError"} :
          \E docs \in DocumentsOf(pid) :
          InsertRAGView_post(valid, pid, docs, upsert)

Init == GInit /\ qaTable = <<>> /\ SInit /\ VInit /\ NIdle

Next == SvcNext

\* The service used by concurrent callers.
Spec == Init /\ [][Next]_vars

InitViews ==
    GInit /\ qaTable = <<>> /\ SInit /\ indexes = {} /\ VInit /\ NIdle

\* The query and ingestion endpoints.
SpecViews == InitViews /\ [][ViewNext]_vars

InitRFP ==
    GInit /\ qaTable \in AllTables /\ SInit /\ indexes = {} /\ VInit /\ NIdle

NextRFP == GenNextOnce

\* One document request over any QuestionAnswer table of at most MaxQA rows.
SpecRFP == InitRFP /\ [][NextRFP]_vars

\* A table in which each project has one answered question.
SeqTable ==
    << [created |-> 1, project |-> 1, question |-> <<"a">>,
        answer |-> <<"o", "k">>],
       [created |-> 2, project |-> 2, question |-> <<"b">>,
        answer |-> <<"o", "k">>] >>

InitRFPSeq ==
    GInit /\ qaTable = SeqTable /\ SInit /\ indexes = {} /\ VInit /\ NIdle

\* Document requests one after the other.
NextRFPSeq ==
    \/ \E pid \in RequestIds, valid \in BOOLEAN : GenPost(pid, valid)
    \/ GenFetch
    \/ GenFilter
    \/ GenSynthesize
    \/ GenRender
    \/ \E date \in Dates : GenMkdir(date)
    \/ GenOpen
    \/ GenWrite
    \/ GenRespond

SpecRFPSeq == InitRFPSeq /\ [][NextRFPSeq]_vars

(***************************************************************************)
(* GenerateRFPView._create_word_document: the narrative, line by line.     *)
(***************************************************************************)
\* Longest synthesized text, in characters.
MaxText == 5

\* The characters the texts are made of.
Alphabet == {"#", " ", "*", "-", "0", "1", ".", "\n"}

\* The texts chat_with_gpt may hand to the renderer.
Texts == UNION { [1..n -> Alphabet] : n \in 0..MaxText }

\* str.startswith(prefix) and str.endswith(suffix).
startswith(str, prefix) ==
    Len(str) >= Len(prefix) /\ SubSeq(str, 1, Len(prefix)) = prefix

endswith(str, suffix) ==
    /\ Len(str) >= Len(suffix)
    /\ SubSeq(str, Len(str) - Len(suffix) + 1, Len(str)) = suffix

\* str.replace(old, ''): every occurrence of old, left to right, is removed.
RECURSIVE replace(_, _)
replace(str, old) ==
    IF str = <<>> THEN <<>>
    ELSE IF startswith(str, old)
         THEN replace(SubSeq(str, Len(old) + 1, Len(str)), old)
         ELSE <<Head(str)>> \o replace(Tail(str), old)

\* str.strip(chars): leading and trailing characters of the set removed.
RECURSIVE strip_chars(_, _)
strip_chars(str, chars) ==
    IF str # <<>> /\ Head(str) \in chars
    THEN strip_chars(Tail(str), chars)
    ELSE IF str # <<>> /\ str[Len(str)] \in chars
         THEN strip_chars(SubSeq(str, 1, Len(str) - 1), chars)
         ELSE str

\* str.split('\n'): the pieces between the separators; one piece at least.
RECURSIVE split(_, _)
split(str, sep) ==
    IF \E i \in DOMAIN str : str[i] = sep
    THEN LET i == CHOOSE k \in DOMAIN str :
                     str[k] = sep /\ \A j \in 1..(k - 1) : str[j] # sep
         IN  <<SubSeq(str, 1, i - 1)>> \o split(SubSeq(str, i + 1, Len(str)), sep)
    ELSE <<str>>

\* The decimal digit that str(i) is, for i in 0..9.
DigitChar(i) == <<"0", "1", "2", "3", "4", "5", "6", "7", "8", "9">>[i + 1]

\* tuple(f'{i}.' for i in range(1, 10))
NumberedPrefixes == { <<DigitChar(i), ".">> : i \in 1..9 }

\* A classifier that refuses the line no rule matches.
AddElementStrict(line) ==
    IF startswith(line, <<"#", "#", " ">>)
    THEN [kind |-> "heading1",
          text |-> strip(replace(line, <<"#", "#", " ">>))]
    ELSE IF startswith(line, <<"#", "#", "#", " ">>)
    THEN [kind |-> "heading2",
          text |-> strip(replace(line, <<"#", "#", "#", " ">>))]
    ELSE IF startswith(line, <<"*", "*">>) /\ endswith(line, <<"*", "*">>)
    THEN [kind |-> "bold", text |-> strip_chars(line, {"*"})]
    ELSE IF startswith(line, <<"-", " ">>) \/ startswith(line, <<"*", " ">>)
    THEN [kind |-> "bullet", text |-> strip(SubSeq(line, 3, Len(line)))]
    ELSE IF \E prefix \in NumberedPrefixes : startswith(line, prefix)
    THEN [kind |-> "numbered", text |-> line]
    ELSE [kind |-> "error", text |-> line]
\* The if / elif chain on a trimmed, non-empty line: the element it adds.
add_element(line) ==
    IF startswith(line, <<"#", "#", " ">>)
    THEN [kind |-> "heading1",
          text |-> strip(replace(line, <<"#", "#", " ">>))]
    ELSE IF startswith(line, <<"#", "#", "#", " ">>)
    THEN [kind |-> "heading2",
          text |-> strip(replace(line, <<"#", "#", "#", " ">>))]
    ELSE IF startswith(line, <<"*", "*">>) /\ endswith(line, <<"*", "*">>)
    THEN [kind |-> "bold", text |-> strip_chars(line, {"*"})]
    ELSE IF startswith(line, <<"-", " ">>) \/ startswith(line, <<"*", " ">>)
    THEN [kind |-> "bullet", text |-> strip(SubSeq(line, 3, Len(line)))]
    ELSE IF \E prefix \in NumberedPrefixes : startswith(line, prefix)
    THEN [kind |-> "numbered", text |-> line]
    ELSE [kind |-> "paragraph", text |-> line]

\* The renderer is handed a text.
NInit ==
    /\ n_text \in Texts
    /\ n_pc = "split"
    /\ lines = <<>>
    /\ n_doc = <<>>

\* lines = ai_generated_content.split('\n')
NarrativeSplit ==
    /\ n_pc = "split"
    /\ lines' = split(n_text, "\n")
    /\ n_pc' = "line"
    /\ UNCHANGED <<n_text, n_doc>>
    /\ UNCHANGED <<gvars, svars, vvars>>

\* One turn of "for line in lines": the line is trimmed; an empty one is
\* passed over, any other adds its element.
NarrativeLine ==
    /\ n_pc = "line"
    /\ lines # <<>>
    /\ LET line == strip(Head(lines))
       IN  n_doc' = IF line = <<>> THEN n_doc
                    ELSE Append(n_doc, add_element(line))
    /\ lines' = Tail(lines)
    /\ UNCHANGED <<n_text, n_pc>>
    /\ UNCHANGED <<gvars, svars, vvars>>

\* The loop is over.
NarrativeEnd ==
    /\ n_pc = "line"
    /\ lines = <<>>
    /\ n_pc' = "done"
    /\ UNCHANGED <<n_text, lines, n_doc>>
    /\ UNCHANGED <<gvars, svars, vvars>>

InitNarrative ==
    GInit /\ qaTable = <<>> /\ SInit /\ indexes = {} /\ VInit /\ NInit

NextNarrative == NarrativeSplit \/ NarrativeLine \/ NarrativeEnd

\* The rendering of any text of at most MaxText characters.
SpecNarrative == InitNarrative /\ [][NextNarrative]_vars

(***************************************************************************)
(* Properties.                                                             *)
(***************************************************************************)
\* The filter of the current document request has run.
AfterFilter ==
    \/ g_pc \in {"synthesize", "render", "mkdir", "open", "write", "respond"}
    \/ /\ g_pc = "done"
       /\ response.kind \in {"NoQAHistory", "GenerationError", "PersistError",
                             "document"}

\* A question text as the specification normalises it: surrounding
\* whitespace trimmed, then lower-cased.
Norm(q) == lower(strip(q))

\* C1: namespace isolation.  Whatever a retrieval made for project A returns
\* was upserted by an insert_documents call made for project A; no record
\* written for another project is among its matches.
C1_NamespaceIsolation ==
    \A w \in Workers :
        (call[w].op = "answer" /\ call[w].pc = "done") =>
            \A m \in call[w].matches : m.by = call[w].project_id

\* C1 witness: a retrieval for one project returned records while another
\* project's namespace held records too.
C1_Witness ==
    \E w \in Workers :
        /\ call[w].op = "answer"
        /\ call[w].pc = "done"
        /\ call[w].matches # {}
        /\ \E p \in ProjectIds :
              p # call[w].project_id /\ store[Namespace(p)] # <<>>

\* C2 (as claimed): an endpoint that calls the service hands it the
\* request's project id, so that the namespace is that of the request.
C2_EndpointsPassProjectId ==
    (lastView.view \in {"query", "insert"} /\ lastView.called) =>
        LET n == IF lastView.view = "query" THEN 1 ELSE 2
        IN  /\ Len(lastView.args) >= n
            /\ lastView.args[n] = lastView.project_id

\* C3 (as claimed): at most one filtered record per normalised question, and
\* it is the newest of all rows of the history with that question.
C3_NewestOfAll ==
    AfterFilter =>
        /\ \A i, j \in DOMAIN qa_pairs :
              Norm(qa_pairs[i].question) = Norm(qa_pairs[j].question) => i = j
        /\ \A i \in DOMAIN qa_pairs, j \in DOMAIN all_qas :
              Norm(qa_pairs[i].question) = Norm(all_qas[j].question)
                  => qa_pairs[i].created >= all_qas[j].created

\* C3 (amended): at most one filtered record per normalised question, each a
\* row of the history, and it is the newest of the rows with that question
\* whose answer, trimmed, is not the fallback sentence.
C3_NewestAnswered ==
    AfterFilter =>
        /\ \A i, j \in DOMAIN qa_pairs :
              Norm(qa_pairs[i].question) = Norm(qa_pairs[j].question) => i = j
        /\ \A i \in DOMAIN qa_pairs :
              \E j \in DOMAIN all_qas : qa_pairs[i] = all_qas[j]
        /\ \A i \in DOMAIN qa_pairs, j \in DOMAIN all_qas :
              ( /\ Norm(qa_pairs[i].question) = Norm(all_qas[j].question)
                /\ strip(all_qas[j].answer) # FallbackSentence )
                  => qa_pairs[i].created >= all_qas[j].created

\* C3 witness: two rows whose questions differ only in case and whitespace,
\* both answered, and the filtered set holds the newer one.
C3_Witness ==
    /\ AfterFilter
    /\ \E i, j \in DOMAIN all_qas :
          /\ all_qas[i].created > all_qas[j].created
          /\ all_qas[i].question # all_qas[j].question
          /\ Norm(all_qas[i].question) = Norm(all_qas[j].question)
          /\ strip(all_qas[i].answer) # FallbackSentence
          /\ strip(all_qas[j].answer) # FallbackSentence
          /\ \E k \in DOMAIN qa_pairs : qa_pairs[k] = all_qas[i]

\* C4: no filtered record carries the fallback sentence as its answer, and
\* so no answer line of the transcript or of the appendix is that sentence.
C4_NoFallbackAnswer ==
    AfterFilter =>
        /\ \A i \in DOMAIN qa_pairs : qa_pairs[i].answer # FallbackSentence
        /\ \A i \in DOMAIN context :
              context[i][1] = "A" => context[i][3] # FallbackSentence
        /\ \A i \in DOMAIN buffer.appendix :
              buffer.appendix[i][1] = "A"
                  => buffer.appendix[i][2] # FallbackSentence

\* C4 witness: a document was returned for a history that holds a row whose
\* answer is exactly the fallback sentence.
C4_Witness ==
    /\ g_pc = "done"
    /\ response.kind = "document"
    /\ \E j \in DOMAIN all_qas : all_qas[j].answer = FallbackSentence

\* C5: the filter applied to its own output gives that output back, same
\* records in the same order.
C5_FilterIdempotent ==
    AfterFilter => FilterQAs(qa_pairs) = qa_pairs

\* C5 witness: the filter kept two records and dropped at least one.
C5_Witness ==
    /\ AfterFilter
    /\ Len(qa_pairs) >= 2
    /\ Len(all_qas) > Len(qa_pairs)

\* C6: when every row of the project's history is dropped (or there is
\* none), the request ends as NoQAHistory: the provider is not called, no
\* document is rendered or returned, storage is as the request found it.
C6_NoQAHistory ==
    ( /\ AfterFilter
      /\ \A j \in DOMAIN all_qas : strip(all_qas[j].answer) = FallbackSentence )
        => /\ g_pc = "done"
           /\ response = [status |-> 400, kind |-> "NoQAHistory"]
           /\ gptCalls = 0
           /\ rfp_content = "none"
           /\ buffer = NoDocument
           /\ files = storage0.files
           /\ dirs = storage0.dirs

\* C6 witness: a request ended as NoQAHistory although the project has
\* rows: all of them were dropped by the filter.
C6_Witness ==
    /\ g_pc = "done"
    /\ response.kind = "NoQAHistory"
    /\ all_qas # <<>>

\* C7 (as claimed): an answer call for a known project whose retrieval and
\* generation do not fail succeeds and appends its record: the newest row
\* carries that call's project, question and answer.
C7_SuccessfulAnswerRecorded ==
    ( /\ lastView.view = "query"
      /\ lastView.valid
      /\ lastView.project_id \in ProjectIds
      /\ lastView.chain.outcome = "ok" )
        => /\ lastView.status = 200
           /\ qaTable # <<>>
           /\ qaTable[Len(qaTable)].project = lastView.project_id
           /\ qaTable[Len(qaTable)].question = lastView.prompt
           /\ qaTable[Len(qaTable)].answer = lastView.chain.answer

\* The documents of a batch that are readable and of a supported type.
GoodDocs(docs) ==
    { i \in DOMAIN docs :
        docs[i].exists /\ docs[i].loads /\ docs[i].file_type \in {"pdf", "docx"} }

\* C8 (as claimed): a batch skips each document that is missing, fails to
\* load or has an unsupported type; the chunks of every other document are
\* collected, and upserted when the store accepts them.
C8_BadDocumentSkipped ==
    ( /\ lastView.view = "insert"
      /\ lastView.valid
      /\ lastView.project_id \in ProjectIds )
        => /\ lastView.loaded = GoodDocs(lastView.docs)
           /\ (GoodDocs(lastView.docs) # {} /\ lastView.upsert = "ok")
                 => (lastView.upserted /\ lastView.status = 200)

\* C9 (as claimed): a batch that loaded some documents, none failing, and
\* whose upsert is accepted reports documents_processed as the number of
\* documents it loaded and chunked.
C9_ProcessedCountsLoaded ==
    ( /\ lastView.view = "insert"
      /\ lastView.valid
      /\ lastView.project_id \in ProjectIds
      /\ lastView.loaded # {}
      /\ lastView.kind # "LoadError"
      /\ lastView.upsert = "ok" )
        => /\ lastView.kind = "inserted"
           /\ lastView.documents_processed = Cardinality(lastView.loaded)

\* C10 (as claimed): every answer or ingest call ends connected, the index
\* having been created if it was absent.
C10_CallsEndConnected ==
    \A w \in Workers :
        (call[w].pc = "done" /\ call[w].op \in {"answer", "ingest"}) =>
            /\ call[w].outcome # "ValueError"
            /\ PINECONE_INDEX_NAME \in indexes

\* C11 (as claimed): under every interleaving of the existence checks and
\* the creation steps of concurrent create_or_connect_vectorstore calls, no
\* call ends in the error of creating an index another call has just created,
\* so every call that brought documents ends connected.
C11_ConcurrentFirstUse ==
    \A w \in Workers :
        call[w].pc = "done" => call[w].outcome # "AlreadyExists"

\* C12 (as claimed): over any interleaving of get_rag_chain and
\* insert_documents calls each client is constructed at most once, and the
\* stored client is the one the first construction stored.
C12_ClientsConstructedOnce ==
    /\ made.emb <= 1
    /\ made.llm <= 1
    /\ embeddings_model \in {None, <<"OpenAIEmbeddings", 1>>}
    /\ llm \in {None, <<"ChatOpenAI", 1>>}

\* C13 (as claimed): a document request that ended in an error left no
\* partial file: every storage path is absent or holds a whole document.
C13_NoPartialFile ==
    (g_pc = "done" /\ response.kind # "document") =>
        \A p \in Paths : files[p].state \in {"absent", "complete"}

\* C14 (as claimed): once the document is rendered, the request ends by
\* returning it, whether or not persisting it failed.
C14_PersistFailureStillReturns ==
    (g_pc = "done" /\ buffer # NoDocument) =>
        /\ response.kind = "document"
        /\ response.body = buffer

\* C15 (as claimed): between requests, a whole file at the path of a date
\* and a project holds exactly the document last returned for that date and
\* that project.
C15_FileIsLastReturned ==
    g_pc = "done" =>
        \A d \in Dates, p \in ProjectIds :
            ( /\ delivered[<<d, p>>] # NoDocument
              /\ files[FilePath(d, p)].state = "complete" )
                => files[FilePath(d, p)] = WholeFile(delivered[<<d, p>>])

\* C16: an ingest of n chunks for a project that returns successfully has
\* appended exactly n records, one per chunk and in order, to the namespace
\* of that project, whatever the namespace held before (so the same chunks
\* ingested again are there again), has changed no other namespace, and
\* returns inserted_count = n.
C16_IngestAdditive ==
    [][ \A w \in Workers :
          ( /\ call[w].pc = "add"
            /\ call'[w].pc = "done"
            /\ call'[w].outcome = "ok" )
          => LET n == Len(call[w].chunks)
                 ns == <<"project_", call[w].project_id>>
                 old == Len(store[ns])
             IN  /\ Len(store'[ns]) = old + n
                 /\ SubSeq(store'[ns], 1, old) = store[ns]
                 /\ \A i \in 1..n :
                       store'[ns][old + i].text = call[w].chunks[i]
                 /\ \A other \in Namespaces \ {ns} :
                       store'[other] = store[other]
                 /\ call'[w].result = <<"inserted_count", n>> ]_vars

\* C16 witness: an ingest has returned successfully and its namespace holds
\* the same chunk more than once.
C16_Witness ==
    \E w \in Workers :
        /\ call[w].op = "ingest"
        /\ call[w].pc = "done"
        /\ call[w].outcome = "ok"
        /\ LET recs == store[<<"project_", call[w].project_id>>]
           IN  \E i, j \in DOMAIN recs : i < j /\ recs[i].text = recs[j].text

\* The document of the current request has been rendered.
Rendered == AfterFilter /\ buffer # NoDocument

\* C17: the appendix of the rendered document holds, for the i-th record of
\* the filtered set and in that order, the entry "Q{i}: question" followed by
\* the entry "A: answer", and nothing else; the transcript handed to the
\* synthesis holds the same records in the same order under the same numbers.
C17_AppendixIsFilteredSet ==
    Rendered =>
        /\ Len(buffer.appendix) = 2 * Len(qa_pairs)
        /\ Len(context) = 3 * Len(qa_pairs)
        /\ \A i \in DOMAIN qa_pairs :
              /\ buffer.appendix[2 * i - 1] = <<"Q", i, qa_pairs[i].question>>
              /\ buffer.appendix[2 * i] = <<"A", qa_pairs[i].answer>>
              /\ context[3 * i - 2] = buffer.appendix[2 * i - 1]
              /\ context[3 * i - 1] = <<"A", i, qa_pairs[i].answer>>
        /\ \A i, j \in DOMAIN qa_pairs :
              i < j => qa_pairs[i].created > qa_pairs[j].created

\* C17 witness: a document was rendered from two records while the history
\* held a row the filter dropped.
C17_Witness ==
    /\ Rendered
    /\ Len(qa_pairs) >= 2
    /\ Len(all_qas) > Len(qa_pairs)

\* The lines of the text that are not blank, trimmed, in their order.
NonBlankLines ==
    SelectSeq([i \in DOMAIN split(n_text, "\n") |->
                  strip(split(n_text, "\n")[i])],
              LAMBDA l : l # <<>>)

\* No rule but the default one matches the trimmed line.
NoRuleMatches(l) ==
    /\ ~startswith(l, <<"#", "#", " ">>)
    /\ ~startswith(l, <<"#", "#", "#", " ">>)
    /\ ~(startswith(l, <<"*", "*">>) /\ endswith(l, <<"*", "*">>))
    /\ ~startswith(l, <<"-", " ">>)
    /\ ~startswith(l, <<"*", " ">>)
    /\ ~(l[1] \in {"1", "2", "3", "4", "5", "6", "7", "8", "9"}
         /\ Len(l) >= 2 /\ l[2] = ".")

C19_NumberedItems ==
    n_pc = "done" =>
        \A i \in DOMAIN n_doc :
            n_doc[i].kind \in {"numbered", "paragraph"} =>
                ( n_doc[i].kind = "numbered"
                  <=> /\ Len(NonBlankLines[i]) >= 2
                      /\ NonBlankLines[i][1] \in
                            {"0", "1", "2", "3", "4", "5", "6", "7", "8", "9"}
                      /\ NonBlankLines[i][2] = "." )

\* The place of a step of the document request in the order Fetch, Filter,
\* Synthesize, Render, Persist (directory, open, write), Return.
StageRank(pc) ==
    CASE pc = "idle"       -> 0
      [] pc = "fetch"      -> 1
      [] pc = "filter"     -> 2
      [] pc = "synthesize" -> 3
      [] pc = "render"     -> 4
      [] pc = "mkdir"      -> 5
      [] pc = "open"       -> 6
      [] pc = "write"      -> 7
      [] pc = "respond"    -> 8
      [] pc = "done"       -> 9

\* C20: every step of a document request moves to a later stage, none to the
\* same or an earlier one; the generation provider is called at most once,
\* in the synthesis stage and for a filtered set that is not empty; storage
\* changes only once the document is rendered; the response is the last step.
C20_StageOrder ==
    [][ /\ StageRank(g_pc') > StageRank(g_pc)
        /\ gptCalls' <= 1
        /\ gptCalls' # gptCalls
              => (g_pc = "synthesize" /\ qa_pairs # <<>> /\ gptCalls' = 1)
        /\ (files' # files \/ dirs' # dirs)
              => (buffer # NoDocument /\ g_pc \in {"mkdir", "open", "write"})
        /\ response' # response => g_pc' = "done"
        /\ g_pc' = "done" => response' # NoResponse ]_vars

\* C20 witness: a request went through every stage: the provider was called
\* once, the document is stored and returned.
C20_Witness ==
    /\ g_pc = "done"
    /\ response.kind = "document"
    /\ gptCalls = 1
    /\ files[FilePath(today, g_req.project_id)] = WholeFile(response.body)

C22_AbsentOnlyIfExactFallback ==
    AfterFilter =>
        \A j \in DOMAIN all_qas :
            all_qas[j].answer # FallbackSentence =>
                \E i \in DOMAIN qa_pairs :
                    /\ Norm(qa_pairs[i].question) = Norm(all_qas[j].question)
                    /\ qa_pairs[i].created >= all_qas[j].created
                    /\ qa_pairs[i].answer # FallbackSentence

\* C22 (amended): every row of the history whose answer, trimmed, is not
\* the fallback sentence has its normalised question in the filtered set,
\* under a record at least as new whose answer, trimmed, is not the fallback
\* sentence; a row dropped for its fallback answer hides no older row.
C22_FallbackDoesNotMarkSeen ==
    AfterFilter =>
        \A j \in DOMAIN all_qas :
            strip(all_qas[j].answer) # FallbackSentence =>
                \E i \in DOMAIN qa_pairs :
                    /\ Norm(qa_pairs[i].question) = Norm(all_qas[j].question)
                    /\ qa_pairs[i].created >= all_qas[j].created
                    /\ strip(qa_pairs[i].answer) # FallbackSentence

\* C22 witness: the newest row of a question carries the fallback answer, an
\* older row of the same normalised question another answer, and the
\* filtered set holds the older row.
C22_Witness ==
    /\ AfterFilter
    /\ \E i, j \in DOMAIN all_qas :
          /\ all_qas[i].created > all_qas[j].created
          /\ Norm(all_qas[i].question) = Norm(all_qas[j].question)
          /\ \A k \in DOMAIN all_qas :
                Norm(all_qas[k].question) = Norm(all_qas[i].question)
                    => all_qas[k].created <= all_qas[i].created
          /\ strip(all_qas[i].answer) = FallbackSentence
          /\ strip(all_qas[j].answer) # FallbackSentence
          /\ \E k \in DOMAIN qa_pairs : qa_pairs[k] = all_qas[j]

====
